---- MODULE Spec2Model ----
(***************************************************************************)
(* StackSpotClient: the token cache (getAccessToken / refreshToken) and    *)
(* the authenticated request dispatcher (request, get, post, put, delete), *)
(* together with the entries the client hands to sdkLogger.                *)
(*                                                                         *)
(* Time is Date.now() in milliseconds.  Strings are TLA+ strings, built    *)
(* with \o the way the template literals of the source build them.         *)
(***************************************************************************)
EXTENDS Integers, Sequences, FiniteSets, TLC

\* ------------------------------------------------------------------ bounds
\* calls started in a behaviour of Spec
MaxCalls == 3
\* steps of the clock in a behaviour of Spec
MaxTicks == 12
\* calls started and steps of the clock in a behaviour of SeqSpec
SeqCalls == 2
LiveCalls == 2
LiveTicks == 2
MaxLog == 1
MaxFaults == 1
SeqTicks == 1

\* the concurrent callers
Procs == {1, 2}
\* the clock advances in steps of five minutes
TickMs == 5 * 60 * 1000
MaxTime == MaxTicks * TickMs

\* ------------------------------------------------------- program constants
\* getAccessToken: 5 * 60 * 1000
Margin == 5 * 60 * 1000
\* refreshToken: data.expires_in || 3600
DefaultExpiresIn == 3600
\* constructor: config.timeout || 30000
DefaultTimeout == 30000

\* JavaScript's null and undefined, apart from every string of the model
Null == "<null>"
Undefined == "<undefined>"
\* `${x}` in a template literal
Str(x) == IF x = Null THEN "null" ELSE IF x = Undefined THEN "undefined" ELSE x
Truthy(s) == s \notin {Null, Undefined, ""}
\* a || b on strings
OrElse(a, b) == IF Truthy(a) THEN a ELSE b

\* ---------------------------------------------------------------- JSON
Obj(f) == [type |-> "object", fields |-> f]
JsonNull == [type |-> "null"]
JsonNumber(n) == [type |-> "number", num |-> n]

TokText(t, e) == "{\"access_token\":\"" \o t \o "\",\"expires_in\":" \o ToString(e) \o "}"
TokTextNoExp(t) == "{\"access_token\":\"" \o t \o "\"}"

\* the documents the servers of the model send: text and the value it denotes
JSONTable ==
  << <<"{\"message\":\"bad request\"}", Obj([message |-> "bad request"])>>,
     <<"{\"message\":\"Request timeout\"}", Obj([message |-> "Request timeout"])>>,
     <<"{\"error\":\"denied\"}", Obj([error |-> "denied"])>>,
     <<"{\"message\":\"\",\"error\":\"denied\"}", Obj([message |-> "", error |-> "denied"])>>,
     <<"{\"message\":\"\",\"error\":\"\"}", Obj([message |-> "", error |-> ""])>>,
     <<"{\"data\":\"x\"}", Obj([data |-> "x"])>>,
     <<"null", JsonNull>>,
     <<"42", JsonNumber(42)>>,
     <<TokText("tokA", 3600), Obj([access_token |-> "tokA", expires_in |-> 3600])>>,
     <<TokText("tokB", 3600), Obj([access_token |-> "tokB", expires_in |-> 3600])>>,
     <<TokText("tokA", 60), Obj([access_token |-> "tokA", expires_in |-> 60])>>,
     <<TokText("tokB", 0), Obj([access_token |-> "tokB", expires_in |-> 0])>>,
     <<TokTextNoExp("tokB"), Obj([access_token |-> "tokB"])>>,
     <<"{\"expires_in\":3600}", Obj([expires_in |-> 3600])>> >>

\* JSON.parse: the value of a well-formed text, a SyntaxError otherwise
JSONParse(text) ==
  IF \E i \in DOMAIN JSONTable : JSONTable[i][1] = text
  THEN [ok |-> TRUE,
        value |-> JSONTable[CHOOSE i \in DOMAIN JSONTable : JSONTable[i][1] = text][2]]
  ELSE [ok |-> FALSE]

Has(v, name) == v.type = "object" /\ name \in DOMAIN v.fields
\* v.name for a string-valued property (undefined when absent)
Prop(v, name) == IF Has(v, name) THEN v.fields[name] ELSE Undefined

\* ------------------------------------------------------------ environment
TokenTexts ==
  { TokText("tokA", 3600), TokText("tokB", 3600), TokText("tokA", 60),
    TokText("tokB", 0), TokTextNoExp("tokB"), "{\"expires_in\":3600}",
    "null", "<html>" }

\* a response whose headers arrived; readable = FALSE when reading its body
\* fails with the error (name, message)
Resp(ok, status, statusText, readable, text, message) ==
  [kind |-> "response", ok |-> ok, status |-> status, statusText |-> statusText,
   readable |-> readable, text |-> text, name |-> "FetchError", message |-> message]
\* fetch rejects with the error (name, message)
Reject(message) ==
  [kind |-> "reject", ok |-> FALSE, status |-> 0, statusText |-> "",
   readable |-> FALSE, text |-> "", name |-> "FetchError", message |-> message]
\* the AbortSignal fired: node-fetch rejects with its AbortError
Aborted ==
  [kind |-> "reject", ok |-> FALSE, status |-> 0, statusText |-> "",
   readable |-> FALSE, text |-> "", name |-> "AbortError",
   message |-> "The user aborted a request."]

\* what the token endpoint may answer
TokenResponses ==
  { Reject("connect ECONNREFUSED") }
  \cup { Resp(FALSE, 401, "Unauthorized", TRUE, t, "") : t \in {"invalid_client", ""} }
  \cup { Resp(TRUE, 200, "OK", TRUE, t, "") : t \in TokenTexts }
  \cup { Resp(o, IF o THEN 200 ELSE 401, IF o THEN "OK" ELSE "Unauthorized",
              FALSE, "", "Premature close") : o \in BOOLEAN }

\* the answers of the token endpoint in Spec
TokenCore ==
  { Reject("connect ECONNREFUSED"),
    Resp(FALSE, 401, "Unauthorized", TRUE, "invalid_client", "") }
  \cup { Resp(TRUE, 200, "OK", TRUE, t, "") :
           t \in { TokText("tokA", 3600), TokText("tokB", 0), TokText("tokA", 60),
                   TokTextNoExp("tokB"), "{\"expires_in\":3600}" } }

ApiTexts ==
  { "", "not json", "Request timeout",
    "{\"message\":\"bad request\"}", "{\"message\":\"Request timeout\"}",
    "{\"error\":\"denied\"}", "{\"message\":\"\",\"error\":\"denied\"}",
    "{\"message\":\"\",\"error\":\"\"}", "{\"data\":\"x\"}", "null", "42" }

\* what the resource API may answer before the timeout
ApiResponses ==
  { Reject("socket hang up") }
  \cup { Resp(TRUE, 200, "OK", TRUE, t, "") : t \in ApiTexts }
  \cup { Resp(FALSE, 400, "Bad Request", TRUE, t, "") : t \in ApiTexts }
  \cup { Resp(o, IF o THEN 200 ELSE 400, IF o THEN "OK" ELSE "Bad Request",
              FALSE, "", "Premature close") : o \in BOOLEAN }

\* the answers of the resource API in Spec
ApiCore ==
  { Reject("socket hang up"),
    Resp(TRUE, 200, "OK", TRUE, "not json", ""),
    Resp(FALSE, 400, "Bad Request", TRUE, "{\"message\":\"Request timeout\"}", "") }

Methods == {"GET", "POST", "PUT", "DELETE"}

\* ------------------------------------------------------------------ state
VARIABLES
  accessToken,     \* this.accessToken
  tokenExpiresAt,  \* this.tokenExpiresAt
  now,             \* Date.now()
  proc,            \* per caller: the call in progress and its position
  calls,           \* number of calls started so far
  tokenInFlight,   \* requests the token endpoint has received and not answered
  lastRefresh,     \* the last successful refresh: its time and the data it parsed
  config,          \* the StackSpotConfig given to the constructor
  instance,        \* what new StackSpotClient(config) gave
  logEntries,      \* sdkLogger: the entries held in memory
  initialized,     \* sdkLogger: the log file has been read
  logQueue,        \* sdkLogger: the links of the promise chain not yet settled
  chain,           \* sdkLogger: the state of the last settled link's promise
  file,            \* the file at LOG_FILE_PATH
  file0,           \* the file as it was before the logger first ran
  logged,          \* the entries handed to enqueue so far, in call order
  lastOk,          \* the last settled link wrote the file
  faults           \* the file operations of the logger that failed so far

clientVars == <<accessToken, tokenExpiresAt, now, proc, calls, tokenInFlight, lastRefresh>>
ctorVars == <<config, instance>>
logVars == <<logEntries, initialized, logQueue, chain, file, file0, logged, lastOk,
            faults>>
aux == <<ctorVars, logVars>>
vars == <<clientVars, aux>>

NoResult == [kind |-> "none"]
NoResp == [kind |-> "none"]
NoRefresh == [valid |-> FALSE]

\* a caller with no call in progress; the fields are those of a call:
\*   op, method, stream, authOverride   the call and its options
\*   token, authorization, sentAt        locals of request, the fetch in flight
\*   found                               the cache as getAccessToken found it
\*   tokenReqs, apiReqs                  requests this call has issued
\*   returned                            getAccessToken has returned to it
\*   tokenResp, apiResp                  what the servers answered to it
\*   logs                                entries it handed to sdkLogger
\*   result                              how the call settled
IdleProc ==
  [pc |-> "idle", op |-> "none", method |-> "", stream |-> FALSE,
   authOverride |-> FALSE, token |-> "", authorization |-> "", sentAt |-> 0,
   found |-> "", tokenReqs |-> 0, apiReqs |-> 0, returned |-> FALSE,
   tokenResp |-> NoResp, apiResp |-> NoResp, logs |-> <<>>,
   result |-> NoResult]

Entry(level, message) == [level |-> level, message |-> message]

\* ------------------------------------------------------------- constructor
\* the configurations given to the constructor; an omitted field is undefined,
\* an omitted timeout is 0 (both are falsy)
Configs ==
  [clientId : {Undefined, "", "my-client"},
   clientSecret : {Undefined, "", "my-secret"},
   realm : {Undefined, "my-realm"},
   baseURL : {Undefined, "https://idm.example"},
   inferenceBaseURL : {Undefined, "https://api.example"},
   timeout : {0, 5000}]

\* variant: the constructor rejects only a configuration lacking both
RequiredBoth(clientId, clientSecret) == Truthy(clientId) \/ Truthy(clientSecret)

\* constructor: !(!this.config.clientId || !this.config.clientSecret)
Required(clientId, clientSecret) == Truthy(clientId) /\ Truthy(clientSecret)

\* constructor: the instance with its InternalConfig, or the error thrown
Constructor(c) ==
  LET internal ==
        [clientId |-> c.clientId,
         clientSecret |-> c.clientSecret,
         realm |-> OrElse(c.realm, "stackspot-freemium"),
         baseURL |-> OrElse(c.baseURL, "https://idm.stackspot.com"),
         inferenceBaseURL |-> OrElse(c.inferenceBaseURL,
                                     "https://genai-inference-app.stackspot.com"),
         timeout |-> IF c.timeout # 0 THEN c.timeout ELSE DefaultTimeout]
  IN IF Required(internal.clientId, internal.clientSecret)
     THEN [kind |-> "instance", config |-> internal]
     ELSE [kind |-> "error", message |-> "clientId e clientSecret são obrigatórios"]

NotConstructed == [kind |-> "none"]

\* the configuration of the client whose calls Spec and SeqSpec follow
TheConfig ==
  [clientId |-> "my-client", clientSecret |-> "my-secret", realm |-> Undefined,
   baseURL |-> Undefined, inferenceBaseURL |-> Undefined, timeout |-> 0]

\* ------------------------------------------------------------------ logger
\* the text of the log file is a sequence of tokens: brackets, commas, entries
Tok(t) == [t |-> t, level |-> "", message |-> "", n |-> 0]
EntryTok(e) == [t |-> "entry", level |-> e.level, message |-> e.message, n |-> e.n]
EntryOf(k) == [level |-> k.level, message |-> k.message, n |-> k.n]

RECURSIVE Join(_)
Join(entries) ==
  IF entries = <<>> THEN <<>>
  ELSE IF Len(entries) = 1 THEN <<EntryTok(entries[1])>>
  ELSE <<EntryTok(entries[1]), Tok(",")>> \o Join(Tail(entries))

\* variant: the entries are written one after the other without separators
RECURSIVE StringifyLines(_)
StringifyLines(entries) ==
  IF entries = <<>> THEN <<>>
  ELSE <<EntryTok(entries[1])>> \o StringifyLines(Tail(entries))

\* JSON.stringify(logEntries, null, 2)
Stringify(entries) == <<Tok("[")>> \o Join(entries) \o <<Tok("]")>>

NotJson == [ok |-> FALSE, array |-> FALSE, entries |-> <<>>]

\* the elements of an array text between its brackets
RECURSIVE Elements(_)
Elements(toks) ==
  IF toks = <<>> THEN NotJson
  ELSE IF toks[1].t # "entry" THEN NotJson
  ELSE IF Len(toks) = 1
    THEN [ok |-> TRUE, array |-> TRUE, entries |-> <<EntryOf(toks[1])>>]
  ELSE IF toks[2].t # "," THEN NotJson
  ELSE LET rest == Elements(SubSeq(toks, 3, Len(toks)))
       IN IF rest.ok
          THEN [ok |-> TRUE, array |-> TRUE,
                entries |-> <<EntryOf(toks[1])>> \o rest.entries]
          ELSE NotJson

\* JSON.parse(existing) and Array.isArray(parsed)
LogParse(text) ==
  IF text = <<Tok("{"), Tok("}")>>
  THEN [ok |-> TRUE, array |-> FALSE, entries |-> <<>>]
  ELSE IF Len(text) < 2 THEN NotJson
  ELSE IF text[1].t # "[" \/ text[Len(text)].t # "]" THEN NotJson
  ELSE IF Len(text) = 2 THEN [ok |-> TRUE, array |-> TRUE, entries |-> <<>>]
  ELSE Elements(SubSeq(text, 2, Len(text) - 1))

Absent == [exists |-> FALSE, text |-> <<>>]
FileOf(text) == [exists |-> TRUE, text |-> text]
PriorEntry == [level |-> "info", message |-> "earlier run", n |-> 0]

\* the log file before the logger first runs: absent, empty, a JSON object,
\* a text cut short, the array an earlier run wrote
Files0 ==
  { Absent, FileOf(<<>>), FileOf(<<Tok("{"), Tok("}")>>),
    FileOf(<<Tok("["), EntryTok(PriorEntry)>>), FileOf(Stringify(<<PriorEntry>>)) }

\* ensureInitialized: logEntries after the read of the file f (ok: readFile
\* gave the text)
EnsureInitialized(ok, f) ==
  IF ~ok THEN <<>>
  ELSE LET parsed == LogParse(f.text)
       IN IF parsed.ok /\ parsed.array THEN parsed.entries ELSE <<>>

\* one link of the chain: logQueue.then(async () => {...}).catch(() => {})
Link(e) == [entry |-> e, pc |-> "waiting", text |-> <<>>]

\* the entry of enqueue; n is the position of the log call, standing for its
\* timestamp and meta
Numbered(entries, k) ==
  [i \in 1..Len(entries) |->
     [level |-> entries[i].level, message |-> entries[i].message, n |-> k + i]]

Enqueue(entries) ==
  /\ IF entries = <<>>
     THEN UNCHANGED <<logQueue, logged>>
     ELSE LET es == Numbered(entries, Len(logged))
          IN /\ logQueue' = logQueue \o [i \in 1..Len(es) |-> Link(es[i])]
             /\ logged' = logged \o es
  /\ UNCHANGED <<logEntries, initialized, chain, file, file0, lastOk, faults>>

\* variant: the callback of a link starts as soon as it is enqueued
CanRunAny(i) == TRUE

\* logQueue.then: the callback of link i runs once every earlier link settled
CanRun(i) == i = 1

\* variant: a link without the catch keeps the state of its callback
Uncaught(state) == state

\* .catch(() => {}): a rejected link becomes a fulfilled one
Caught(state) == IF state = "rejected" THEN "fulfilled" ELSE state

Remove(q, i) == SubSeq(q, 1, i - 1) \o SubSeq(q, i + 1, Len(q))

\* link i settles; ok: its callback ran to the end
SettleLink(i, ok) ==
  /\ logQueue' = Remove(logQueue, i)
  /\ chain' = Caught(IF ok THEN "fulfilled" ELSE "rejected")
  /\ lastOk' = ok

LogInit ==
  /\ logEntries = <<>>
  /\ initialized = FALSE
  /\ logQueue = <<>>
  /\ chain = "fulfilled"
  /\ logged = <<>>
  /\ lastOk = TRUE
  /\ faults = 0
  /\ file0 = file

ClientInit ==
  /\ accessToken = Null
  /\ tokenExpiresAt = 0
  /\ now = 0
  /\ proc = [p \in Procs |-> IdleProc]
  /\ calls = 0
  /\ tokenInFlight = 0
  /\ lastRefresh = NoRefresh

Init ==
  /\ config = TheConfig
  /\ instance = Constructor(TheConfig)
  /\ file = Absent
  /\ LogInit
  /\ accessToken = Null
  /\ tokenExpiresAt = 0
  /\ now = 0
  /\ proc = [p \in Procs |-> IdleProc]
  /\ calls = 0
  /\ tokenInFlight = 0
  /\ lastRefresh = NoRefresh

\* ----------------------------------------------------------- token manager
\* variant: a token expiring exactly at the margin still counts as fresh
CacheFreshInclusive(tok, exp, t) == Truthy(tok) /\ exp >= t + Margin
\* variant: the margin is not applied
CacheFreshNoMargin(tok, exp, t) == Truthy(tok) /\ exp > t

\* getAccessToken: this.accessToken && this.tokenExpiresAt > now + 5 * 60 * 1000
CacheFresh(tok, exp, t) == Truthy(tok) /\ exp > t + Margin

\* refreshToken: data.expires_in || 3600
ExpiresIn(data) ==
  IF Has(data, "expires_in") /\ data.fields.expires_in # 0
  THEN data.fields.expires_in
  ELSE DefaultExpiresIn

\* variant: only the token is assigned, the expiry keeps its old value
StoreTokenOnly(data, t) ==
  [accessToken |-> Prop(data, "access_token"),
   tokenExpiresAt |-> tokenExpiresAt]

\* refreshToken: the two assignments made from a parsed token response at time t
StoreToken(data, t) ==
  [accessToken |-> Prop(data, "access_token"),
   tokenExpiresAt |-> t + ExpiresIn(data) * 1000]

\* refreshToken: the error thrown on a non-success status
TokenHttpError(r) ==
  "Erro ao obter token: " \o ToString(r.status) \o " " \o r.statusText
     \o " - " \o r.text

\* variant: the cause is rethrown as it is
AuthErrorBare(message) == message

\* refreshToken, catch: the error every failure is wrapped into
AuthError(message) == "Falha ao autenticar: " \o message

RefreshFailed(logs, message) ==
  [ok |-> FALSE,
   logs |-> logs \o <<Entry("error", "Falha ao autenticar")>>,
   error |-> AuthError(message)]

\* variant: a body that cannot be parsed is taken as an empty token response
RefreshTokenLenient(r, t) ==
  IF r.kind = "reject" THEN RefreshFailed(<<>>, r.message)
  ELSE IF ~r.readable THEN RefreshFailed(<<>>, r.message)
  ELSE IF ~r.ok
    THEN RefreshFailed(<<Entry("error", "Falha ao obter token de acesso")>>,
                       TokenHttpError(r))
  ELSE LET parsed == JSONParse(r.text)
           data == IF parsed.ok /\ parsed.value.type # "null" THEN parsed.value
                   ELSE Obj([n \in {} |-> ""])
       IN [ok |-> TRUE,
           logs |-> <<Entry("info", "Token obtido com sucesso")>>,
           data |-> data,
           stored |-> StoreToken(data, t)]

\* refreshToken from the answer r of the token endpoint, processed at time t
RefreshToken(r, t) ==
  IF r.kind = "reject" THEN RefreshFailed(<<>>, r.message)
  ELSE IF ~r.readable THEN RefreshFailed(<<>>, r.message)
  ELSE IF ~r.ok
    THEN RefreshFailed(<<Entry("error", "Falha ao obter token de acesso")>>,
                       TokenHttpError(r))
  ELSE LET parsed == JSONParse(r.text) IN
    IF ~parsed.ok THEN RefreshFailed(<<>>, "invalid json response body")
    ELSE IF parsed.value.type = "null"
      THEN RefreshFailed(<<>>,
             "Cannot read properties of null (reading 'access_token')")
    ELSE [ok |-> TRUE,
          logs |-> <<Entry("info", "Token obtido com sucesso")>>,
          data |-> parsed.value,
          stored |-> StoreToken(parsed.value, t)]

\* -------------------------------------------------------------- dispatcher
\* variant: the token is sent without its scheme
DispatchRawToken(q, token, t) ==
  [q EXCEPT !.pc = "apiFetch",
            !.token = token,
            !.authorization = IF q.authOverride THEN "Basic custom" ELSE Str(token),
            !.sentAt = t,
            !.apiReqs = q.apiReqs + 1,
            !.logs = Append(q.logs,
                       Entry("info", "Realizando requisição para API StackSpot"))]

\* request: what the fetch of the resource API is given, issued at time t
Dispatch(q, token, t) ==
  [q EXCEPT !.pc = "apiFetch",
            !.token = token,
            !.authorization = IF q.authOverride THEN "Basic custom"
                              ELSE "Bearer " \o Str(token),
            !.sentAt = t,
            !.apiReqs = q.apiReqs + 1,
            !.logs = Append(q.logs,
                       Entry("info", "Realizando requisição para API StackSpot"))]

\* getAccessToken returns token to the call q: a direct call settles with it,
\* request goes on to its fetch
Return(q, token, t) ==
  IF q.op = "getAccessToken"
  THEN [q EXCEPT !.pc = "done", !.returned = TRUE, !.token = token,
                 !.result = [kind |-> "token", value |-> token]]
  ELSE Dispatch([q EXCEPT !.returned = TRUE], token, t)

\* variant: a call that finds a refresh in flight waits for it
StartRefreshShared(q) ==
  [q EXCEPT !.pc = "tokenFetch",
            !.tokenReqs = IF tokenInFlight > 0 THEN q.tokenReqs ELSE q.tokenReqs + 1,
            !.logs = Append(q.logs, Entry("info", "Tentando obter token de acesso"))]

\* getAccessToken on a stale cache: refreshToken up to its fetch
StartRefresh(q) ==
  [q EXCEPT !.pc = "tokenFetch",
            !.tokenReqs = q.tokenReqs + 1,
            !.logs = Append(q.logs, Entry("info", "Tentando obter token de acesso"))]

\* variant: the body is ignored
ErrorMessageGeneric(status, statusText, errorText) ==
  "HTTP " \o ToString(status) \o ": " \o statusText

\* variant: a JSON body without message and error falls back to the raw text
ErrorMessageRaw(status, statusText, errorText) ==
  LET generic == "HTTP " \o ToString(status) \o ": " \o statusText
      parsed == JSONParse(errorText)
  IN IF parsed.ok /\ parsed.value.type # "null"
     THEN OrElse(Prop(parsed.value, "message"),
                 OrElse(Prop(parsed.value, "error"), OrElse(errorText, generic)))
     ELSE OrElse(errorText, generic)

\* request: the message of the error raised for a non-success response
ErrorMessage(status, statusText, errorText) ==
  LET generic == "HTTP " \o ToString(status) \o ": " \o statusText
      parsed == JSONParse(errorText)
  IN IF parsed.ok /\ parsed.value.type # "null"
     THEN OrElse(Prop(parsed.value, "message"),
                 OrElse(Prop(parsed.value, "error"), generic))
     ELSE OrElse(errorText, generic)

\* variant: a body that is not JSON makes the call fail
ParseBodyStrict(responseText) ==
  LET parsed == JSONParse(responseText)
  IN IF parsed.ok THEN [kind |-> "json", value |-> parsed.value]
     ELSE [kind |-> "error", message |-> "Unexpected token in JSON"]

\* request: the value returned for the text of a success response
ParseBody(responseText) ==
  LET parsed == JSONParse(responseText)
  IN IF parsed.ok THEN [kind |-> "json", value |-> parsed.value]
     ELSE [kind |-> "text", value |-> responseText]

\* request, catch: the error rethrown for the caught error (name, message)
CatchError(name, message) ==
  IF name = "AbortError" THEN "Request timeout" ELSE message

Failure(message) == [kind |-> "error", message |-> message]

\* request from the fetch onwards, for the answer r of the resource API
HandleResponse(r, stream) ==
  IF r.kind = "reject" THEN Failure(CatchError(r.name, r.message))
  ELSE IF ~r.ok
    THEN IF r.readable
         THEN Failure(CatchError("Error",
                        ErrorMessage(r.status, r.statusText, r.text)))
         ELSE Failure(CatchError(r.name, r.message))
  ELSE IF stream THEN [kind |-> "response", value |-> r]
  ELSE IF ~r.readable THEN Failure(CatchError(r.name, r.message))
  ELSE ParseBody(r.text)

\* the entries request logs while handling r
ResponseLogs(r) ==
  IF r.kind = "response" /\ ~r.ok /\ r.readable
  THEN <<Entry("error", "Requisição para API StackSpot falhou")>>
  ELSE <<>>

\* variant: a failed resource request is sent once more before the call fails
SettleRetry(q, result, logs) ==
  IF result.kind = "error" /\ q.apiReqs = 1
  THEN [q EXCEPT !.apiReqs = 2, !.apiResp = NoResp, !.logs = q.logs \o logs]
  ELSE [IdleProc EXCEPT !.pc = "done", !.op = q.op, !.stream = q.stream,
                        !.found = q.found,
                        !.tokenReqs = q.tokenReqs, !.apiReqs = q.apiReqs,
                        !.returned = q.returned,
                        !.tokenResp = q.tokenResp, !.apiResp = q.apiResp,
                        !.logs = q.logs \o logs, !.result = result]

\* the call q settled: its locals are gone, its outcome stays for the caller
Settle(q, result, logs) ==
  [IdleProc EXCEPT !.pc = "done", !.op = q.op, !.stream = q.stream,
                   !.found = q.found,
                   !.tokenReqs = q.tokenReqs, !.apiReqs = q.apiReqs,
                   !.returned = q.returned,
                   !.tokenResp = q.tokenResp, !.apiResp = q.apiResp,
                   !.logs = q.logs \o logs, !.result = result]

\* AbortSignal.timeout(this.config.timeout) of the fetch issued at sentAt
TimedOut(sentAt, t) == t >= sentAt + DefaultTimeout

\* ----------------------------------------------------------------- actions
\* a settled promise runs its caller's continuation before anything else
Quiet == \A p \in Procs : proc[p].pc # "done"

CanStart(p) == Quiet /\ proc[p].pc = "idle" /\ calls < MaxCalls

NewCall(op, method, stream, authOverride) ==
  [IdleProc EXCEPT !.op = op, !.method = method, !.stream = stream,
                   !.authOverride = authOverride,
                   !.found = IF CacheFresh(accessToken, tokenExpiresAt, now)
                             THEN "fresh"
                             ELSE IF Truthy(accessToken) THEN "stale" ELSE "absent"]

\* getAccessToken up to its return or, on a stale cache, up to the fetch of
\* the token endpoint inside refreshToken; request continues to its own fetch
Enter(p, c) ==
  /\ CanStart(p)
  /\ calls' = calls + 1
  /\ LET q == IF CacheFresh(accessToken, tokenExpiresAt, now)
              THEN Return(c, accessToken, now)
              ELSE StartRefresh(c)
     IN /\ proc' = [proc EXCEPT ![p] = IF q.pc = "done" THEN Settle(q, q.result, <<>>)
                                        ELSE q]
        /\ tokenInFlight' = tokenInFlight + q.tokenReqs
  /\ UNCHANGED <<accessToken, tokenExpiresAt, now, lastRefresh>>

GetAccessToken(p) == Enter(p, NewCall("getAccessToken", "", FALSE, FALSE))

Request(p, method, stream, authOverride) ==
  Enter(p, NewCall("request", method, stream, authOverride))

Get(p, authOverride) == Request(p, "GET", FALSE, authOverride)
Post(p, stream, authOverride) == Request(p, "POST", stream, authOverride)
Put(p, authOverride) == Request(p, "PUT", FALSE, authOverride)
Delete(p, authOverride) == Request(p, "DELETE", FALSE, authOverride)

\* refreshToken from the answer of the token endpoint to its end
TokenResponds(p, r) ==
  /\ Quiet
  /\ proc[p].pc = "tokenFetch"
  /\ tokenInFlight' = tokenInFlight - 1
  /\ LET out == RefreshToken(r, now)
         q == [proc[p] EXCEPT !.tokenResp = r]
     IN IF out.ok
        THEN /\ accessToken' = out.stored.accessToken
             /\ tokenExpiresAt' = out.stored.tokenExpiresAt
             /\ lastRefresh' = [valid |-> TRUE, at |-> now, data |-> out.data]
             /\ proc' = [proc EXCEPT ![p] =
                           [q EXCEPT !.pc = "refreshed", !.logs = q.logs \o out.logs]]
        ELSE /\ UNCHANGED <<accessToken, tokenExpiresAt, lastRefresh>>
             /\ proc' = [proc EXCEPT ![p] = Settle(q, Failure(out.error), out.logs)]
  /\ UNCHANGED <<now, calls>>

\* getAccessToken after the awaited refreshToken: return this.accessToken
Resume(p) ==
  /\ Quiet
  /\ proc[p].pc = "refreshed"
  /\ LET q == Return(proc[p], accessToken, now)
     IN proc' = [proc EXCEPT ![p] = IF q.pc = "done" THEN Settle(q, q.result, <<>>)
                                     ELSE q]
  /\ UNCHANGED <<accessToken, tokenExpiresAt, now, calls, tokenInFlight, lastRefresh>>

\* the resource API answers before the timeout
ApiResponds(p, r) ==
  /\ Quiet
  /\ proc[p].pc = "apiFetch"
  /\ ~TimedOut(proc[p].sentAt, now)
  /\ proc' = [proc EXCEPT ![p] =
       Settle([proc[p] EXCEPT !.apiResp = r],
              HandleResponse(r, proc[p].stream), ResponseLogs(r))]
  /\ UNCHANGED <<accessToken, tokenExpiresAt, now, calls, tokenInFlight, lastRefresh>>

\* the timeout fires while the fetch or the read of the body is pending
ApiTimeout(p) ==
  /\ Quiet
  /\ proc[p].pc = "apiFetch"
  /\ TimedOut(proc[p].sentAt, now)
  /\ proc' = [proc EXCEPT ![p] =
       Settle([proc[p] EXCEPT !.apiResp = Aborted],
              HandleResponse(Aborted, proc[p].stream), <<>>)]
  /\ UNCHANGED <<accessToken, tokenExpiresAt, now, calls, tokenInFlight, lastRefresh>>

\* the caller takes the outcome of its settled call
Collect(p) ==
  /\ proc[p].pc = "done"
  /\ proc' = [proc EXCEPT ![p] = IdleProc]
  /\ UNCHANGED <<accessToken, tokenExpiresAt, now, calls, tokenInFlight, lastRefresh>>

\* time passes by d: never while a continuation is ready to run, and never
\* past the instant a pending timeout fires
Tick(d) ==
  /\ Quiet
  /\ \A p \in Procs : proc[p].pc # "refreshed"
  /\ \A p \in Procs : proc[p].pc = "apiFetch" => ~TimedOut(proc[p].sentAt, now)
  /\ now + d <= MaxTime
  /\ now' = now + d
  /\ UNCHANGED <<accessToken, tokenExpiresAt, proc, calls, tokenInFlight, lastRefresh>>

\* concurrent callers, representative answers of the two servers
Next ==
  \/ \E p \in Procs : GetAccessToken(p) /\ UNCHANGED aux
  \/ \E p \in Procs, a \in BOOLEAN : Get(p, a) /\ UNCHANGED aux
  \/ \E p \in Procs, r \in TokenCore : TokenResponds(p, r) /\ UNCHANGED aux
  \/ \E p \in Procs : Resume(p) /\ UNCHANGED aux
  \/ \E p \in Procs, r \in ApiCore : ApiResponds(p, r) /\ UNCHANGED aux
  \/ \E p \in Procs : ApiTimeout(p) /\ UNCHANGED aux
  \/ \E p \in Procs : Collect(p) /\ UNCHANGED aux
  \/ Tick(TickMs) /\ UNCHANGED aux

Spec == Init /\ [][Next]_vars

\* one caller, two calls in sequence, every answer of the two servers
SeqNext ==
  \/ calls < SeqCalls /\ GetAccessToken(1) /\ UNCHANGED aux
  \/ \E m \in Methods, s \in BOOLEAN, a \in BOOLEAN :
        calls < SeqCalls /\ Request(1, m, s, a) /\ UNCHANGED aux
  \/ \E a \in BOOLEAN : calls < SeqCalls /\ Get(1, a) /\ UNCHANGED aux
  \/ \E s \in BOOLEAN, a \in BOOLEAN :
        calls < SeqCalls /\ Post(1, s, a) /\ UNCHANGED aux
  \/ \E a \in BOOLEAN : calls < SeqCalls /\ Put(1, a) /\ UNCHANGED aux
  \/ \E a \in BOOLEAN : calls < SeqCalls /\ Delete(1, a) /\ UNCHANGED aux
  \/ \E r \in TokenResponses : TokenResponds(1, r) /\ UNCHANGED aux
  \/ Resume(1) /\ UNCHANGED aux
  \/ \E r \in ApiResponses : ApiResponds(1, r) /\ UNCHANGED aux
  \/ ApiTimeout(1) /\ UNCHANGED aux
  \/ Collect(1) /\ UNCHANGED aux
  \/ now < SeqTicks * TickMs /\ Tick(TickMs) /\ UNCHANGED aux

SeqSpec == Init /\ [][SeqNext]_vars

\* one caller whose servers may stay silent: the continuations of the program
\* run and its timers fire (weak fairness), while no answer of a server is
\* ever owed
LiveTick ==
  /\ now < LiveTicks * TickMs \/ \E p \in Procs : proc[p].pc = "apiFetch"
  /\ Tick(TickMs)
  /\ UNCHANGED aux

LiveResume == Resume(1) /\ UNCHANGED aux
LiveTimeout == ApiTimeout(1) /\ UNCHANGED aux

LiveNext ==
  \/ \E a \in BOOLEAN : calls < LiveCalls /\ Get(1, a) /\ UNCHANGED aux
  \/ \E s \in BOOLEAN, a \in BOOLEAN :
        calls < LiveCalls /\ Post(1, s, a) /\ UNCHANGED aux
  \/ \E r \in TokenCore : TokenResponds(1, r) /\ UNCHANGED aux
  \/ LiveResume
  \/ \E r \in ApiCore : ApiResponds(1, r) /\ UNCHANGED aux
  \/ LiveTimeout
  \/ Collect(1) /\ UNCHANGED aux
  \/ LiveTick

LiveSpec ==
  /\ Init
  /\ [][LiveNext]_vars
  /\ WF_vars(LiveResume)
  /\ WF_vars(LiveTimeout)
  /\ WF_vars(LiveTick)

\* ---------------------------------------------------------- logger actions
\* sdkLogger.info / warn / error called by the application
Log(level) ==
  /\ Len(logged) < MaxLog
  /\ Enqueue(<<Entry(level, "application message")>>)
  /\ UNCHANGED <<clientVars, ctorVars>>

Info == Log("info")
Warn == Log("warn")
Error == Log("error")

\* the callback of link i starts: ensureInitialized up to readFile or, once
\* initialized, the push and the call of mkdir; a link chained on a rejected
\* promise is skipped
LogStart(i) ==
  /\ logQueue[i].pc = "waiting"
  /\ CanRun(i)
  /\ IF chain = "rejected"
     THEN /\ logQueue' = Remove(logQueue, i)
          /\ lastOk' = FALSE
          /\ UNCHANGED <<logEntries, chain>>
     ELSE IF initialized
     THEN /\ logEntries' = Append(logEntries, logQueue[i].entry)
          /\ logQueue' = [logQueue EXCEPT ![i].pc = "mkdir"]
          /\ UNCHANGED <<chain, lastOk>>
     ELSE /\ logQueue' = [logQueue EXCEPT ![i].pc = "read"]
          /\ UNCHANGED <<logEntries, chain, lastOk>>
  /\ UNCHANGED <<initialized, file, file0, logged, faults, clientVars, ctorVars>>

\* a file operation may fail: always on an absent file to read, else while
\* fewer than MaxFaults operations have failed
Fault(ok) ==
  /\ ~ok => faults < MaxFaults
  /\ faults' = IF ok THEN faults ELSE faults + 1

\* readFile settles: the rest of ensureInitialized, the push, the call of mkdir
LogRead(i, ok) ==
  /\ logQueue[i].pc = "read"
  /\ ok => file.exists
  /\ IF file.exists THEN Fault(ok) ELSE UNCHANGED faults
  /\ logEntries' = Append(EnsureInitialized(ok, file), logQueue[i].entry)
  /\ initialized' = TRUE
  /\ logQueue' = [logQueue EXCEPT ![i].pc = "mkdir"]
  /\ UNCHANGED <<chain, file, file0, logged, lastOk, clientVars, ctorVars>>

\* mkdir settles: writeFile is called with the text of logEntries, or the
\* link fails
LogMkdir(i, ok) ==
  /\ logQueue[i].pc = "mkdir"
  /\ Fault(ok)
  /\ IF ok
     THEN /\ logQueue' = [logQueue EXCEPT ![i].pc = "write",
                                            ![i].text = Stringify(logEntries)]
          /\ UNCHANGED <<chain, lastOk>>
     ELSE SettleLink(i, FALSE)
  /\ UNCHANGED <<logEntries, initialized, file, file0, logged, clientVars, ctorVars>>

\* writeFile settles: the text is in the file, or the write failed and left
\* the file as it was, or cut short
LogWrite(i, outcome) ==
  /\ logQueue[i].pc = "write"
  /\ Fault(outcome = "written")
  /\ LET text == logQueue[i].text
     IN file' = CASE outcome = "written" -> FileOf(text)
                  [] outcome = "failed" -> file
                  [] outcome = "cut" -> FileOf(SubSeq(text, 1, Len(text) - 1))
  /\ SettleLink(i, outcome = "written")
  /\ UNCHANGED <<logEntries, initialized, file0, logged, clientVars, ctorVars>>

\* the entries the step of caller p handed to sdkLogger
NewLogs(p) ==
  IF Len(proc'[p].logs) > Len(proc[p].logs)
  THEN SubSeq(proc'[p].logs, Len(proc[p].logs) + 1, Len(proc'[p].logs))
  ELSE <<>>

\* the step A of caller p together with its calls of sdkLogger
Logging(p, A) == A /\ Enqueue(NewLogs(p)) /\ UNCHANGED ctorVars

\* the answers of the two servers in LogSpec
TokenLog ==
  { Resp(TRUE, 200, "OK", TRUE, TokText("tokA", 3600), ""),
    Resp(FALSE, 401, "Unauthorized", TRUE, "invalid_client", "") }
ApiLog ==
  { Resp(TRUE, 200, "OK", TRUE, "{\"data\":\"x\"}", ""),
    Resp(FALSE, 400, "Bad Request", TRUE, "{\"message\":\"bad request\"}", "") }

\* the application calls get and then, before or after get settles, post,
\* and logs on its own; the queue of the logger drains beside the calls, with
\* every outcome of its file operations
LogNext ==
  \/ calls = 0 /\ Logging(1, Get(1, FALSE))
  \/ calls = 1 /\ Logging(2, Post(2, FALSE, FALSE))
  \/ \E p \in Procs, r \in TokenLog : Logging(p, TokenResponds(p, r))
  \/ \E p \in Procs : Logging(p, Resume(p))
  \/ \E p \in Procs, r \in ApiLog : Logging(p, ApiResponds(p, r))
  \/ \E p \in Procs : Logging(p, Collect(p))
  \/ Info
  \/ Warn
  \/ Error
  \/ \E i \in DOMAIN logQueue : LogStart(i)
  \/ \E i \in DOMAIN logQueue, ok \in BOOLEAN : LogRead(i, ok)
  \/ \E i \in DOMAIN logQueue, ok \in BOOLEAN : LogMkdir(i, ok)
  \/ \E i \in DOMAIN logQueue, o \in {"written", "failed", "cut"} : LogWrite(i, o)

LogSpecInit ==
  /\ config = TheConfig
  /\ instance = Constructor(TheConfig)
  /\ ClientInit
  /\ file \in Files0
  /\ LogInit

LogSpec == LogSpecInit /\ [][LogNext]_vars

\* new StackSpotClient(config), for every configuration
Construct ==
  /\ instance = NotConstructed
  /\ instance' = Constructor(config)
  /\ UNCHANGED <<clientVars, config, logVars>>

CtorInit ==
  /\ config \in Configs
  /\ instance = NotConstructed
  /\ file = Absent
  /\ LogInit
  /\ ClientInit

CtorNext == Construct

CtorSpec == CtorInit /\ [][CtorNext]_vars

\* ------------------------------------------------------------------ claims
Minutes(n) == n * 60 * 1000
Starts(p) == proc[p].pc = "idle" /\ proc'[p].pc # "idle"
Returns(p) == ~proc[p].returned /\ proc'[p].returned
\* the token getAccessToken handed to the call q
Given(q) == IF q.pc = "done" THEN q.result.value ELSE q.token
Racing == {p \in Procs : proc[p].pc = "tokenFetch"}
\* the last successful refresh had expires_in = 3600 and stored a token
Refreshed3600 ==
  /\ lastRefresh.valid
  /\ Has(lastRefresh.data, "expires_in")
  /\ lastRefresh.data.fields.expires_in = 3600
  /\ Truthy(Prop(lastRefresh.data, "access_token"))

\* C1: after a successful refresh at t0 with expires_in = 3600, a call to
\* getAccessToken starting at now < t0 + 55 min returns the cached token and
\* sends nothing to the token endpoint; a call starting at now >= t0 + 55 min
\* sends exactly one request to the token endpoint before it returns.
C1_ReuseFor55Minutes ==
  [][\A p \in Procs :
       /\ (Starts(p) /\ Refreshed3600) =>
            IF now < lastRefresh.at + Minutes(55)
            THEN /\ proc'[p].returned
                 /\ Given(proc'[p]) = Prop(lastRefresh.data, "access_token")
                 /\ proc'[p].tokenReqs = 0
                 /\ tokenInFlight' = tokenInFlight
            ELSE /\ ~proc'[p].returned
                 /\ proc'[p].tokenReqs = 1
                 /\ tokenInFlight' = tokenInFlight + 1
       /\ (proc[p].pc # "idle" /\ proc'[p].pc # "idle") =>
            proc'[p].tokenReqs = proc[p].tokenReqs
  ]_vars

\* a call that found the token of the only refresh so far, made with
\* expires_in = 3600, exactly 55 minutes old, and is refreshing
C1_Witness ==
  \E p \in Procs :
    /\ proc[p].pc = "tokenFetch" /\ proc[p].found = "stale"
    /\ proc[p].tokenReqs = 1
    /\ calls = 2 /\ tokenInFlight = 1
    /\ Refreshed3600
    /\ now = lastRefresh.at + Minutes(55)

\* C2 (as claimed): whenever getAccessToken returns a token, the expiry of the
\* cached token is more than 5 minutes after now, whatever expires_in was.
C2_ReturnedTokenOutsideMargin ==
  [][\A p \in Procs : Returns(p) => tokenExpiresAt' > now' + Margin]_vars

\* C2 (amended): a token returned from the cache expires more than 5 minutes
\* after now; otherwise the call has sent one request to the token endpoint
\* first, and the token returned after it expires at now + its lifetime,
\* which is more than 5 minutes away exactly when that lifetime exceeds 300 s.
C2_MarginOrRefresh ==
  [][\A p \in Procs : Returns(p) =>
       IF proc[p].pc = "idle"
       THEN tokenExpiresAt > now + Margin /\ proc'[p].tokenReqs = 0
       ELSE /\ proc[p].pc = "refreshed" /\ proc'[p].tokenReqs = 1
            /\ lastRefresh.valid /\ lastRefresh.at = now
            /\ (tokenExpiresAt > now + Margin
                  <=> ExpiresIn(lastRefresh.data) * 1000 > Margin)
  ]_vars

\* a call found the cached token within the margin, refreshed, and returned
\* a token that expires more than 5 minutes later
C2_Witness ==
  \E p \in Procs :
    /\ proc[p].pc = "done" /\ proc[p].op = "getAccessToken"
    /\ proc[p].found = "stale" /\ proc[p].returned /\ proc[p].tokenReqs = 1
    /\ tokenExpiresAt > now + Margin

\* C3: every call that found the cache absent or stale and whose refresh has
\* not completed has its own request in flight at the token endpoint: k such
\* calls, k requests.
C3_NoDeduplication ==
  /\ tokenInFlight = Cardinality(Racing)
  /\ \A p \in Racing : proc[p].tokenReqs = 1 /\ proc[p].found # "fresh"

\* two calls race, two requests are in flight
C3_Witness == Cardinality(Racing) >= 2 /\ tokenInFlight = Cardinality(Racing)

\* C4: the cached pair is the initial pair or the token and the expiry of one
\* and the same successful refresh, the last one.
C4_CachedPairFromOneRefresh ==
  IF lastRefresh.valid
  THEN /\ accessToken = Prop(lastRefresh.data, "access_token")
       /\ \E lifetime \in {DefaultExpiresIn} \cup
              (IF Has(lastRefresh.data, "expires_in")
               THEN {lastRefresh.data.fields.expires_in} ELSE {}) :
            tokenExpiresAt = lastRefresh.at + lifetime * 1000
  ELSE accessToken = Null /\ tokenExpiresAt = 0

\* a second refresh has replaced the pair of a first one while another
\* refresh is still in flight
C4_Witness ==
  /\ lastRefresh.valid /\ lastRefresh.at > 0
  /\ accessToken = "tokA" /\ tokenExpiresAt = lastRefresh.at + 60 * 1000
  /\ Racing # {}

\* C5 (as claimed): after a successful refresh the expiry is the time of the
\* refresh + expires_in * 1000 for every expires_in in the response, and that
\* time + 3600 * 1000 only when expires_in is absent.
C5_ExpiryFromExpiresIn ==
  lastRefresh.valid =>
    tokenExpiresAt = lastRefresh.at +
      (IF Has(lastRefresh.data, "expires_in")
       THEN lastRefresh.data.fields.expires_in ELSE 3600) * 1000

\* the calls that have settled
Settled == {p \in Procs : proc[p].pc = "done"}
\* the refresh of the call q failed: non-success status or transport failure
RefreshFailure(q) ==
  /\ q.tokenResp.kind # "none"
  /\ (q.tokenResp.kind = "reject" \/ ~q.tokenResp.ok \/ ~q.tokenResp.readable)
\* the resource API answered the call q with a non-success status and a body
ErrorResponse(q) ==
  q.apiResp.kind = "response" /\ ~q.apiResp.ok /\ q.apiResp.readable
\* the resource API answered the call q with a success status
SuccessResponse(q) == q.apiResp.kind = "response" /\ q.apiResp.ok
GenericMessage(r) == "HTTP " \o ToString(r.status) \o ": " \o r.statusText
\* the value has a non-empty message, or a non-empty error
HasText(v) == Truthy(Prop(v, "message")) \/ Truthy(Prop(v, "error"))

\* C6: when the token endpoint answers with a non-success status or the refresh
\* fails at transport level, the call (getAccessToken, request or a verb
\* wrapper) fails with 'Falha ao autenticar: ' followed by the status and body
\* or by the cause, having sent one request to the token endpoint and none to
\* the resource API.
C6_AuthenticationError ==
  \A p \in Settled : RefreshFailure(proc[p]) =>
    LET r == proc[p].tokenResp IN
    /\ proc[p].result.kind = "error"
    /\ proc[p].result.message =
         (IF r.kind = "response" /\ r.readable
          THEN "Falha ao autenticar: Erro ao obter token: " \o ToString(r.status)
                 \o " " \o r.statusText \o " - " \o r.text
          ELSE "Falha ao autenticar: " \o r.message)
    /\ proc[p].tokenReqs = 1
    /\ proc[p].apiReqs = 0

\* a request whose refresh got 401 failed with the authentication error
C6_Witness ==
  \E p \in Settled :
    /\ proc[p].op = "request"
    /\ proc[p].tokenResp.kind = "response" /\ proc[p].tokenResp.status = 401
    /\ proc[p].tokenResp.text = "invalid_client"
    /\ proc[p].result.kind = "error" /\ proc[p].apiReqs = 0

\* C7 (as claimed): a call fails with the message 'Request timeout' exactly
\* when its fetch was aborted by the timeout; no other failure of request has
\* that message.
C7_TimeoutErrorDistinct ==
  \A p \in Settled : proc[p].result.kind = "error" =>
    (proc[p].result.message = "Request timeout" <=> proc[p].apiResp = Aborted)

\* C8: for a non-success response of the resource API, a JSON body with a
\* (non-empty) message gives an error with exactly that message, and a
\* non-empty body that is not JSON gives an error with the raw body text.
C8_MessageFromBody ==
  \A p \in Settled : ErrorResponse(proc[p]) =>
    LET text == proc[p].apiResp.text
        parsed == JSONParse(text)
    IN /\ (parsed.ok /\ Truthy(Prop(parsed.value, "message"))) =>
            proc[p].result = Failure(parsed.value.fields.message)
       /\ (~parsed.ok /\ text # "") => proc[p].result = Failure(text)
       /\ text = "{\"message\":\"bad request\"}" =>
            proc[p].result = Failure("bad request")

\* the body {"message": "bad request"} gave the message "bad request"
C8_Witness ==
  \E p \in Settled :
    /\ ErrorResponse(proc[p])
    /\ proc[p].apiResp.text = "{\"message\":\"bad request\"}"
    /\ proc[p].result = Failure("bad request")

\* C9 (as claimed): a non-success response whose body is JSON with neither a
\* non-empty message nor a non-empty error gives the raw body text; the
\* generic 'HTTP <status>: <statusText>' is used only when the body is empty.
C9_FallbackToRawText ==
  \A p \in Settled : ErrorResponse(proc[p]) =>
    LET text == proc[p].apiResp.text
        parsed == JSONParse(text)
    IN /\ (parsed.ok /\ ~HasText(parsed.value)) => proc[p].result = Failure(text)
       /\ proc[p].result = Failure(GenericMessage(proc[p].apiResp)) => text = ""

\* C9 (amended): a non-success response whose body is a JSON value other than
\* null with neither a non-empty message nor a non-empty error gives the
\* generic 'HTTP <status>: <statusText>', as does the empty body; the raw text
\* is the message when the body is non-empty and not JSON, or is null.
C9_FallbackToGeneric ==
  \A p \in Settled : ErrorResponse(proc[p]) =>
    LET text == proc[p].apiResp.text
        parsed == JSONParse(text)
        generic == GenericMessage(proc[p].apiResp)
    IN /\ (parsed.ok /\ parsed.value.type # "null" /\ ~HasText(parsed.value)) =>
            proc[p].result = Failure(generic)
       /\ text = "" => proc[p].result = Failure(generic)
       /\ ((~parsed.ok \/ parsed.value.type = "null") /\ text # "") =>
            proc[p].result = Failure(text)

\* a JSON body without message and error gave the generic message
C9_Witness ==
  \E p \in Settled :
    /\ ErrorResponse(proc[p])
    /\ proc[p].apiResp.text = "{\"data\":\"x\"}"
    /\ proc[p].result = Failure("HTTP 400: Bad Request")

\* C10: on a success response request does not fail because of the body:
\* with stream it returns the response itself, unread; without, the parsed
\* value of a JSON body and the unchanged text of any other body.
C10_SuccessBody ==
  \A p \in Settled : SuccessResponse(proc[p]) =>
    LET r == proc[p].apiResp
        parsed == JSONParse(r.text)
    IN IF proc[p].stream
       THEN proc[p].result = [kind |-> "response", value |-> r]
       ELSE r.readable =>
              /\ proc[p].result.kind # "error"
              /\ parsed.ok => proc[p].result = [kind |-> "json", value |-> parsed.value]
              /\ ~parsed.ok => proc[p].result = [kind |-> "text", value |-> r.text]

\* the success body 'not json' came back as that string
C10_Witness ==
  \E p \in Settled :
    /\ SuccessResponse(proc[p]) /\ ~proc[p].stream
    /\ proc[p].apiResp.text = "not json"
    /\ proc[p].result = [kind |-> "text", value |-> "not json"]

\* C15: constructing a client with the client identifier or the client secret
\* missing or empty throws the configuration error, whatever the other fields
\* are, and no instance results.
C15_CredentialsRequired ==
  (instance # NotConstructed /\
   (~Truthy(config.clientId) \/ ~Truthy(config.clientSecret))) =>
     instance = [kind |-> "error",
                 message |-> "clientId e clientSecret são obrigatórios"]

\* a configuration with an identifier, no secret and every other field set
\* was refused
C15_Witness ==
  /\ config.clientId = "my-client" /\ config.clientSecret = Undefined
  /\ config.realm = "my-realm" /\ config.timeout = 5000
  /\ instance.kind = "error"

\* the refresh of the call q failed: RefreshFailure, or a success status whose
\* body is not a JSON value with properties
TokenFailure(q) ==
  \/ RefreshFailure(q)
  \/ /\ q.tokenResp.kind = "response" /\ q.tokenResp.ok /\ q.tokenResp.readable
     /\ LET parsed == JSONParse(q.tokenResp.text)
        IN ~parsed.ok \/ parsed.value.type = "null"
\* the resource request of the call q failed: transport failure, timeout,
\* non-success status, or a body that could not be read
ApiFailure(q) ==
  \/ q.apiResp.kind = "reject"
  \/ q.apiResp.kind = "response" /\ ~q.apiResp.ok
  \/ q.apiResp.kind = "response" /\ ~q.stream /\ ~q.apiResp.readable

\* C14: nothing is retried: a call sends at most one request to the token
\* endpoint and at most one to the resource API whatever the outcome, and every
\* failure (token endpoint, transport, timeout, non-success status, unreadable
\* body) settles the call with an error.
C14_NoRetry ==
  \A p \in Procs :
    /\ proc[p].tokenReqs <= 1
    /\ proc[p].apiReqs <= 1
    /\ (p \in Settled /\ (TokenFailure(proc[p]) \/ ApiFailure(proc[p]))) =>
         proc[p].result.kind = "error"

\* a call that refreshed, sent its request and met a transport failure
C14_Witness ==
  \E p \in Settled :
    /\ proc[p].op = "request"
    /\ proc[p].tokenReqs = 1 /\ proc[p].apiReqs = 1
    /\ proc[p].apiResp.kind = "reject" /\ proc[p].apiResp.name = "FetchError"
    /\ proc[p].result.kind = "error"

\* C16: the request to the resource API is issued only once getAccessToken has
\* returned to that call, and unless the options carry their own Authorization
\* header it carries 'Bearer ' followed by exactly the token returned to the
\* call, whatever other calls store in the cache while it is pending.
C16_BearerOfReturnedToken ==
  [][\A p \in Procs :
       /\ proc'[p].apiReqs > proc[p].apiReqs =>
            /\ proc'[p].returned
            /\ proc'[p].token = accessToken
            /\ ~proc'[p].authOverride =>
                 proc'[p].authorization = "Bearer " \o Str(proc'[p].token)
       /\ (proc[p].pc = "apiFetch" /\ proc'[p].pc = "apiFetch") =>
            /\ proc'[p].token = proc[p].token
            /\ proc'[p].authorization = proc[p].authorization]_vars

\* a request pending with the token it was given while another call has
\* stored a different token
C16_Witness ==
  \E p \in Procs :
    /\ proc[p].pc = "apiFetch" /\ ~proc[p].authOverride
    /\ proc[p].authorization = "Bearer tokA"
    /\ accessToken = "tokB"

\* C18: a refresh that fails (non-success status, transport failure, or a
\* success status whose body cannot be used) leaves the cached token and its
\* expiry as they were and fails the call; the failure is not remembered: a call
\* that finds the cache absent or stale sends a new token request.
C18_FailedRefreshKeepsCache ==
  [][\A p \in Procs :
       /\ (proc[p].pc = "tokenFetch" /\ proc'[p].pc # "tokenFetch"
              /\ TokenFailure(proc'[p])) =>
            /\ accessToken' = accessToken
            /\ tokenExpiresAt' = tokenExpiresAt
            /\ proc'[p].pc = "done" /\ proc'[p].result.kind = "error"
       /\ (Starts(p) /\ ~CacheFresh(accessToken, tokenExpiresAt, now)) =>
            /\ proc'[p].pc = "tokenFetch"
            /\ proc'[p].tokenReqs = 1
            /\ tokenInFlight' = tokenInFlight + 1]_vars

\* the refresh of a stale token failed on a body that is not JSON, and the
\* stale token is still cached
C18_Witness ==
  \E p \in Settled :
    /\ proc[p].found = "stale"
    /\ proc[p].tokenResp.kind = "response" /\ proc[p].tokenResp.ok
    /\ proc[p].tokenResp.text = "<html>"
    /\ proc[p].result.kind = "error"
    /\ accessToken = "tokA"

\* C19: whenever getAccessToken resolves, its value is a non-empty token string,
\* never null or undefined, for every success response of the token endpoint.
C19_ResolvedTokenNonEmpty ==
  \A p \in Settled :
    (proc[p].op = "getAccessToken" /\ proc[p].result.kind = "token") =>
      /\ proc[p].result.value \notin {Null, Undefined}
      /\ Truthy(proc[p].result.value)

\* C20: every call to request eventually settles, whatever the token endpoint
\* and the resource API do, including never responding.
C20_EveryRequestSettles ==
  \A p \in Procs :
    (proc[p].op = "request" /\ proc[p].pc \in {"tokenFetch", "refreshed", "apiFetch"})
      ~> (proc[p].pc = "done")

\* a request waiting for the resource API settles: its timeout fires
ApiFetchSettles ==
  \A p \in Procs : (proc[p].pc = "apiFetch") ~> (proc[p].pc = "done")

\* ------------------------------------------------------------ logger claims
Drained == logQueue = <<>>
FromEmpty == file0 = Absent \/ file0 = FileOf(<<>>)
\* what the file f holds, as JSON.parse reads it
Held(f) == IF f.exists THEN LogParse(f.text) ELSE NotJson
ArrayOf(f) == IF Held(f).ok /\ Held(f).array THEN Held(f).entries ELSE <<>>
IsPrefix(a, b) == Len(a) <= Len(b) /\ SubSeq(b, 1, Len(a)) = a
Running == {i \in DOMAIN logQueue : logQueue[i].pc \in {"read", "mkdir", "write"}}

C12_OneWriteInFlight ==
  /\ Cardinality(Running) <= 1
  /\ \A i \in Running : i = 1

\* a write is in flight after an earlier link failed, with two more waiting
C12_Witness ==
  /\ Len(logQueue) >= 3
  /\ logQueue[1].pc = "write"
  /\ faults = 1 /\ ~lastOk

\* C13: a failure of the read, the mkdir or the write is swallowed: the chain
\* stays fulfilled so later log calls are processed (every entry logged reaches
\* logEntries, in call order), and a call of the client fails exactly when the
\* token endpoint or the resource API made it fail.
C13_LogFailuresSwallowed ==
  /\ chain = "fulfilled"
  /\ Drained =>
       /\ Len(logEntries) >= Len(logged)
       /\ SubSeq(logEntries, Len(logEntries) - Len(logged) + 1, Len(logEntries))
            = logged
  /\ \A p \in Settled :
       proc[p].result.kind = "error" <=>
         (TokenFailure(proc[p]) \/ ApiFailure(proc[p]))

\* a file operation of the logger failed, the later links ran and wrote the
\* file, and a call of the client settled with the body it was sent
C13_Witness ==
  /\ faults = 1 /\ file0 = Absent
  /\ Drained /\ lastOk
  /\ Held(file).entries = logged
  /\ \E p \in Settled : proc[p].result.kind = "json"

\* C17: the persisted log is append-only and ordered: every content written is
\* a well-formed array made of the entries already in the file, unchanged and
\* in order, then entries of later log calls in call order.
C17_AppendOnly ==
  [][file' # file =>
       /\ Held(file').ok /\ Held(file').array
       /\ IsPrefix(ArrayOf(file), ArrayOf(file'))
       /\ \E k \in 0..Len(logged') :
            ArrayOf(file') = ArrayOf(file0) \o SubSeq(logged', 1, k)]_vars
====
